---- MODULE Spec2Model ----
(***************************************************************************)
(* rs-git-fsmonitor: git's fsmonitor hook (protocol version 2) answered by *)
(* querying watchman.  One invocation of the hook is main (src/main.rs),   *)
(* which runs query_watchman; that blocks on up to three watchman          *)
(* subprocesses (query, watch, clock), so the invocation is cut into one   *)
(* action per stretch of code between two blocking waits.                  *)
(*                                                                         *)
(* Text is a sequence of one-character strings; NUL stands for the byte 0. *)
(* Unsigned integers that do not fit TLC's 32-bit integers (u64 values)    *)
(* are decimal digit sequences, most significant digit first, without      *)
(* leading zeros.  The work-tree path is taken to be valid Unicode: the    *)
(* `expect`s of lines 110 and 137 do not panic.                            *)
(***************************************************************************)
EXTENDS Integers, Sequences, FiniteSets, TLC

VARIABLES
    version,     \* opt.version, the first positional argument (u8)
    token,       \* opt.token, the second positional argument
    cwd,         \* what env::current_dir() yields in this invocation
    pc,          \* where the invocation is: "main", "wait_query",
                 \* "wait_watch", "wait_clock" or "exited"
    requests,    \* the watchman commands run so far, in order
    child,       \* the outstanding watchman subprocess: what it will do
    stdout,      \* the bytes print! has written
    stderr,      \* the lines eprintln! has written
    exit_code,   \* the process's exit status once pc = "exited"
    watchman,    \* what the watcher did with each command run so far
    invocation,  \* how many times git has run the hook
    prev         \* what the previous run of the hook did

vars == <<version, token, cwd, pc, requests, child, stdout, stderr,
          exit_code, watchman, invocation, prev>>

-----------------------------------------------------------------------------
(* Bounds of the model *)

\* the longest `files` array a response carries
MaxFiles == 2
\* how many times git runs the hook in one behaviour
MaxInvocations == 2

-----------------------------------------------------------------------------
(* Text *)

NUL == "NUL"

Digit == <<"0", "1", "2", "3", "4", "5", "6", "7", "8", "9">>

\* the decimal numeral of a digit sequence, as text
Numeral(ds) == [i \in 1..Len(ds) |-> Digit[ds[i] + 1]]

\* str::contains(&str): hay has needle as a contiguous substring
contains(hay, needle) ==
    \E i \in 1..(Len(hay) + 1) :
        /\ i + Len(needle) - 1 <= Len(hay)
        /\ SubSeq(hay, i, i + Len(needle) - 1) = needle

Option_None == [some |-> FALSE]
Some(x) == [some |-> TRUE, val |-> x]

-----------------------------------------------------------------------------
(* serde_json::Value *)

JNull == [t |-> "null"]
JStr(s) == [t |-> "str", s |-> s]
JNum(d) == [t |-> "num", d |-> d]
JArr(a) == [t |-> "arr", a |-> a]
JObj(o) == [t |-> "obj", o |-> o]

\* value[key]: Null unless value is an object that has the key
Index(value, key) ==
    IF value.t = "obj" /\ key \in DOMAIN value.o THEN value.o[key] ELSE JNull

as_str(value) == IF value.t = "str" THEN Some(value.s) ELSE Option_None

\* an as_array that takes whatever is no array for the empty array
as_array_or_empty(value) ==
    IF value.t = "arr" THEN Some(value.a) ELSE Some(<<>>)

as_array(value) == IF value.t = "arr" THEN Some(value.a) ELSE Option_None

-----------------------------------------------------------------------------
(* u64 arithmetic on digit sequences *)

RECURSIVE Canon(_)
\* drop leading zeros; zero is <<0>>
Canon(ds) ==
    IF Len(ds) <= 1 THEN (IF ds = <<>> THEN <<0>> ELSE ds)
    ELSE IF ds[1] = 0 THEN Canon(Tail(ds)) ELSE ds

RECURSIVE LexLeq(_, _)
LexLeq(a, b) ==
    IF a = <<>> THEN TRUE
    ELSE IF a[1] # b[1] THEN a[1] < b[1]
    ELSE LexLeq(Tail(a), Tail(b))

\* a <= b, both without leading zeros
BigLeq(a, b) ==
    \/ Len(a) < Len(b)
    \/ Len(a) = Len(b) /\ LexLeq(a, b)

\* u64::MAX = 2^64 - 1 = 18446744073709551615
U64_MAX == <<1, 8, 4, 4, 6, 7, 4, 4, 0, 7, 3, 7, 0, 9, 5, 5, 1, 6, 1, 5>>

IsDigit(c) == \E d \in 1..10 : Digit[d] = c

DigitVal(c) == (CHOOSE d \in 1..10 : Digit[d] = c) - 1

RECURSIVE ParseDigits(_, _)
\* the loop of u64::from_str: result = result * 10 + digit, checked
\* (the new result is bound as a value, so that it is computed once)
ParseDigits(result, src) ==
    IF src = <<>> THEN Some(result)
    ELSE IF ~IsDigit(src[1]) THEN Option_None
    ELSE CHOOSE parsed \in
             { IF BigLeq(next, U64_MAX) THEN ParseDigits(next, Tail(src))
               ELSE Option_None :
                   next \in {Canon(result \o <<DigitVal(src[1])>>)} } : TRUE

\* a parse that takes a leading `-` as a sign and keeps the magnitude
parse_u64_signed(src) ==
    IF src = <<>> THEN Option_None
    ELSE IF Len(src) = 1 /\ src[1] \in {"+", "-"} THEN Option_None
    ELSE IF src[1] \in {"+", "-"} THEN ParseDigits(<<0>>, Tail(src))
    ELSE ParseDigits(<<0>>, src)

\* token.parse::<u64>(): an optional `+`, then decimal digits only; empty
\* text, a lone sign, `-`, any other character, or a value above u64::MAX
\* is an error
parse_u64(src) ==
    IF src = <<>> THEN Option_None
    ELSE IF Len(src) = 1 /\ src[1] \in {"+", "-"} THEN Option_None
    ELSE IF src[1] = "+" THEN ParseDigits(<<0>>, Tail(src))
    ELSE ParseDigits(<<0>>, src)

unwrap_or(opt, default) == IF opt.some THEN opt.val ELSE default

NanosPerSec == 1000000000

RECURSIVE Log10(_)
\* the number of zeros of a power of ten
Log10(n) == IF n < 10 THEN 0 ELSE 1 + Log10(n \div 10)

RECURSIVE BigInc(_)
\* x + 1
BigInc(x) ==
    IF x = <<>> THEN <<1>>
    ELSE IF x[Len(x)] < 9
         THEN SubSeq(x, 1, Len(x) - 1) \o <<x[Len(x)] + 1>>
         ELSE BigInc(SubSeq(x, 1, Len(x) - 1)) \o <<0>>

\* a division that rounds to the nearest second instead of truncating
DivNanosRounded(x) ==
    LET k == Log10(NanosPerSec)
        q == IF Len(x) <= k THEN <<0>> ELSE SubSeq(x, 1, Len(x) - k)
    IN  IF Len(x) >= k /\ x[Len(x) - k + 1] >= 5 THEN Canon(BigInc(q)) ELSE q

\* x / 1_000_000_000 in u64: integer division by a power of ten drops the
\* low decimal digits
DivNanos(x) ==
    LET k == Log10(NanosPerSec)
    IN  IF Len(x) <= k THEN <<0>> ELSE SubSeq(x, 1, Len(x) - k)

-----------------------------------------------------------------------------
(* get_watchman_query *)

\* a token interpreter that treats every token as a timestamp
token_value_always_numeric(tok) ==
    JNum(DivNanos(unwrap_or(parse_u64(tok), <<0>>)))

\* the value after `since`: the token itself when it starts with `c`,
\* else the token as u64 nanoseconds (0 when it does not parse) in seconds
token_value(tok) ==
    IF tok # <<>> /\ tok[1] = "c" THEN JStr(tok)
    ELSE JNum(DivNanos(unwrap_or(parse_u64(tok), <<0>>)))

get_watchman_query(git_work_tree, tok) ==
    [cmd |-> "query", root |-> git_work_tree, since |-> token_value(tok),
     fields |-> <<"name">>, expression |-> <<"not", <<"dirname", ".git">>>>]

-----------------------------------------------------------------------------
(* pretty_error and the failure crate *)

\* an error is its chain of messages, outermost first; a message is a
\* sequence of text pieces
IoError == <<"os error">>
Utf8Error == <<"invalid utf-8 sequence">>
JsonError == <<"serde_json error">>

\* ResultExt::context: a new outermost message, the error kept as its cause
context(msg, cause) == <<msg>> \o cause

\* bail!(e) with e a failure::Error: err_msg(e) keeps e's Display, which is
\* its outermost message, and has no cause
bail(e) == <<e[1]>>

RECURSIVE pretty_error(_)
\* the messages of the chain joined by ":\n" (no backtrace is captured)
pretty_error(err) ==
    IF Len(err) = 1 THEN err[1]
    ELSE err[1] \o <<":\n">> \o pretty_error(Tail(err))

-----------------------------------------------------------------------------
(* The inputs of an invocation *)

SupportedVersion == 2

Versions == {0, 1, 2, 3, 255}

Root == <<"/", "r">>

\* env::current_dir(): the work tree, or an error
Cwds == {Some(Root), Option_None}

ClockToken == <<"c", ":", "1", "2", "3">>

Tokens ==
    { ClockToken,
      <<"c">>,
      <<"c", "9">>,
      <<"c", ":", "1", ":", "2">>,
      <<"C", ":", "1">>,
      <<>>,
      <<"+">>,
      <<"-">>,
      <<"-", "5">>,
      <<"-", "5", "0", "0", "0", "0", "0", "0", "0", "0", "0">>,
      <<" ", "5">>,
      <<"1", ".", "5">>,
      <<"1", "2", "x">>,
      <<"n", "o", "t", "-", "a", "-", "n", "u", "m", "b", "e", "r">>,
      Numeral(<<0>>),
      Numeral(<<5>>),
      Numeral(<<9, 9, 9, 9, 9, 9, 9, 9, 9>>),
      Numeral(<<1, 0, 0, 0, 0, 0, 0, 0, 0, 0>>),
      Numeral(<<1, 4, 9, 9, 9, 9, 9, 9, 9, 9>>),
      Numeral(<<1, 5, 0, 0, 0, 0, 0, 0, 0, 0>>),
      Numeral(<<1, 9, 9, 9, 9, 9, 9, 9, 9, 9>>),
      Numeral(<<2, 5, 0, 0, 0, 0, 0, 0, 0, 0>>),
      Numeral(<<0, 0, 2, 5, 0, 0, 0, 0, 0, 0, 0, 0>>),
      <<"+">> \o Numeral(<<2, 5, 0, 0, 0, 0, 0, 0, 0, 0>>),
      Numeral(<<1, 7, 0, 0, 0, 0, 0, 0, 0, 0, 9, 9, 9, 9, 9, 9, 9, 9, 9>>),
      Numeral(U64_MAX),
      Numeral(<<1, 8, 4, 4, 6, 7, 4, 4, 0, 7, 3, 7, 0, 9, 5, 5, 1, 6, 1, 6>>),
      Numeral(<<9, 9, 9, 9, 9, 9, 9, 9, 9, 9, 9, 9, 9, 9, 9, 9, 9, 9, 9, 9>>),
      Numeral(<<1, 0, 0, 0, 0, 0, 0, 0, 0, 0, 0, 0, 0, 0, 0, 0, 0, 0, 0, 0, 0>>) }

-----------------------------------------------------------------------------
(* What the watcher may answer *)

\* the text whose presence in an error means the root is not watched yet
Needle ==
    <<"u", "n", "a", "b", "l", "e", " ", "t", "o", " ",
      "r", "e", "s", "o", "l", "v", "e", " ", "r", "o", "o", "t">>

ErrorTexts ==
    { Needle,
      Needle \o <<" ", "'", "f", "o", "o", "'">>,
      <<"x", ":", " ">> \o Needle \o <<":", " ", "y">>,
      <<"U">> \o Tail(Needle),
      <<"U", "N", "A", "B", "L", "E", " ", "T", "O", " ",
        "R", "E", "S", "O", "L", "V", "E", " ", "R", "O", "O", "T">>,
      SubSeq(Needle, 1, Len(Needle) - 1),
      <<"s", "o", "m", "e", " ", "o", "t", "h", "e", "r", " ",
        "p", "r", "o", "b", "l", "e", "m">>,
      <<>> }

QueryClock == <<"c", ":", "7">>
FreshClock == <<"c", ":", "9", "9">>

FileA == <<"a", ".", "t", "x", "t">>
FileB == <<"b", "/", "c", ".", "t", "x", "t">>

\* what an element of `files` may be: a name, or a value that is no string
FileEntries == {JStr(FileB), JStr(FileA), JNum(<<7>>)}

FileArrays == UNION {[1..n -> FileEntries] : n \in 0..MaxFiles}

\* the object with the given fields; an Option_None field is absent
Object(error, clock, files) ==
    LET given == [error |-> error, clock |-> clock, files |-> files]
        keys == {k \in {"error", "clock", "files"} : given[k].some}
    IN  JObj([k \in keys |-> given[k].val])

Maybe(S) == {Option_None} \cup {Some(x) : x \in S}

QueryResponses ==
    \* no error string: files an array of any content, or not an array
    { Object(e, c, f) :
        e \in Maybe({JNum(<<1>>)}),
        c \in Maybe({JStr(QueryClock), JNum(<<7>>)}),
        f \in Maybe({JArr(a) : a \in FileArrays} \cup {JStr(FileA), JNull}) }
    \cup
    \* an error string, alone or beside a clock and files
    { Object(Some(JStr(e)), c, f) :
        e \in ErrorTexts,
        c \in Maybe({JStr(QueryClock)}),
        f \in Maybe({JArr(<<JStr(FileA)>>)}) }
    \cup
    \* not an object at all
    { JNull, JArr(<<>>) }

ClockResponses ==
    { Object(Option_None, Some(JStr(FreshClock)), Option_None),
      Object(Option_None, Some(JNum(<<9, 9>>)), Option_None),
      Object(Some(JStr(Needle)), Option_None, Option_None),
      JObj(<<>>),
      JNull }

\* what becomes of a watchman command: it cannot be started, its stdin
\* cannot be written, waiting on it fails, or it exits with a status and
\* an output that is not UTF-8, not JSON, or a JSON value
Outcome(k) == [k |-> k]
Json(v) == [k |-> "json", v |-> v]
Exited(success) == [k |-> "exit", success |-> success]

QueryOutcomes ==
    {Outcome(k) : k \in {"spawn_fail", "write_fail", "wait_fail",
                         "not_utf8", "not_json"}}
    \cup {Json(v) : v \in QueryResponses}

WatchOutcomes ==
    {Outcome(k) : k \in {"spawn_fail", "wait_fail"}}
    \cup {Exited(s) : s \in BOOLEAN}

ClockOutcomes ==
    {Outcome(k) : k \in {"spawn_fail", "wait_fail", "not_utf8", "not_json"}}
    \cup {Json(v) : v \in ClockResponses}

Known(req) == \E m \in watchman : m.req = req

OutcomeOf(req) == (CHOOSE m \in watchman : m.req = req).out

\* the watcher answers a command it has been given before as it did then
Answers(req, outcomes) ==
    IF Known(req) THEN {OutcomeOf(req)} ELSE outcomes

-----------------------------------------------------------------------------
(* The steps of an invocation *)

NoChild == [k |-> "none"]

watch_command(root) == [cmd |-> "watch", root |-> root]

clock_command(root) == [cmd |-> "clock", root |-> root]

\* the process ends with the given status, having printed `printed` to
\* stdout and `logged` to stderr
Exit(code, printed, logged) ==
    /\ pc' = "exited"
    /\ exit_code' = Some(code)
    /\ stdout' = stdout \o printed
    /\ stderr' = stderr \o logged

\* a main that prints the error with println! instead of eprintln!
Fail_on_stdout(printed, logged, e) ==
    Exit(1, printed \o pretty_error(e), logged)

\* query_watchman returns Err(e): main prints pretty_error(e) and exits 1
Fail(printed, logged, e) == Exit(1, printed, logged \o <<pretty_error(e)>>)

\* Command::new("watchman")...spawn(), and for the query the write to its
\* stdin: the command is run, and the invocation goes on to wait for it
\* unless it could not be started or written to
Run(command, outcomes, printed, logged, spawn_error, wait_pc) ==
    \E cmd \in {command} : \E out \in Answers(cmd, outcomes) :
        /\ requests' = Append(requests, cmd)
        /\ watchman' = watchman \cup {[req |-> cmd, out |-> out]}
        /\ CASE out.k = "spawn_fail" ->
                    Fail(printed, logged, spawn_error) /\ child' = NoChild
             [] out.k = "write_fail" ->
                    Fail(printed, logged, <<IoError>>) /\ child' = out
             [] OTHER ->
                    /\ pc' = wait_pc
                    /\ child' = out
                    /\ stdout' = stdout \o printed
                    /\ stderr' = stderr \o logged
                    /\ UNCHANGED exit_code

\* a hook that runs the command again, up to three commands in all,
\* when a round trip fails
RetryAfterWait(e) ==
    IF Len(requests) < 3
    THEN /\ requests' = Append(requests, requests[Len(requests)])
         /\ UNCHANGED <<pc, child, stdout, stderr, exit_code, watchman>>
    ELSE /\ Fail(<<>>, <<>>, e)
         /\ child' = NoChild
         /\ UNCHANGED <<requests, watchman>>

\* the subprocess waited for is collected and the invocation fails
FailAfterWait(e) ==
    /\ Fail(<<>>, <<>>, e)
    /\ child' = NoChild
    /\ UNCHANGED <<requests, watchman>>

\* a version gate that lets later protocol versions through
version_supported_or_later(v) == v >= SupportedVersion

version_supported(v) == v = SupportedVersion

\* main, and query_watchman up to its wait on the query subprocess
main ==
    /\ pc = "main"
    /\ IF ~version_supported(version)
       THEN /\ Exit(1, <<>>, << <<"unsupported version">> >>)
            /\ UNCHANGED <<requests, child, watchman>>
       ELSE IF ~cwd.some
       THEN /\ Fail(<<>>, <<>>,
                    context(<<"Couldn't get working directory">>, <<IoError>>))
            /\ UNCHANGED <<requests, child, watchman>>
       ELSE Run(get_watchman_query(cwd.val, token), QueryOutcomes, <<>>, <<>>,
                context(<<"Couldn't start watchman">>, <<IoError>>),
                "wait_query")
    /\ UNCHANGED <<version, token, cwd, invocation, prev>>

UpperCase == <<"U", "N", "A", "B", "L", "E", "T", "O", "R", "S", "V">>
LowerCase == <<"u", "n", "a", "b", "l", "e", "t", "o", "r", "s", "v">>

to_lowercase(text) ==
    [i \in 1..Len(text) |->
        IF \E k \in 1..Len(UpperCase) : UpperCase[k] = text[i]
        THEN LowerCase[CHOOSE k \in 1..Len(UpperCase) : UpperCase[k] = text[i]]
        ELSE text[i]]

\* a match that ignores case
is_unwatched_root_ignoring_case(err) == contains(to_lowercase(err), Needle)

\* err.contains("unable to resolve root")
is_unwatched_root(err) == contains(err, Needle)

unexpected_reason(err, tok) ==
    <<"Watchman failed for an unexpected reason ">> \o err
        \o <<" (token: ">> \o tok \o <<")">>

adding_to_watch_list(worktree) ==
    <<"Adding ">> \o worktree \o <<" to Watchman's watch list">>

RECURSIVE print_files_reversed(_)
\* an encoder that emits the files last to first
print_files_reversed(files) ==
    IF files = <<>> THEN <<>>
    ELSE LET filename == as_str(files[Len(files)])
         IN  (IF filename.some THEN filename.val \o <<NUL>> ELSE <<>>)
                 \o print_files_reversed(SubSeq(files, 1, Len(files) - 1))

RECURSIVE print_files_until_not_string(_)
\* an encoder that stops at the first entry that is no string
print_files_until_not_string(files) ==
    IF files = <<>> THEN <<>>
    ELSE LET filename == as_str(files[1])
         IN  IF filename.some
             THEN filename.val \o <<NUL>>
                      \o print_files_until_not_string(Tail(files))
             ELSE <<>>

RECURSIVE print_files(_)
\* for file in files { if let Some(filename) = file.as_str() { print } }
print_files(files) ==
    IF files = <<>> THEN <<>>
    ELSE LET filename == as_str(files[1])
         IN  (IF filename.some THEN filename.val \o <<NUL>> ELSE <<>>)
                 \o print_files(Tail(files))

\* a print that formats response["clock"] itself, so that a missing clock
\* comes out as the text null
print_response_null_clock(response, files) ==
    unwrap_or(as_str(Index(response, "clock")), <<"n", "u", "l", "l">>)
        \o <<NUL>> \o print_files(files)

\* what the normal path prints: the clock, NUL, then each file name and NUL
print_response(response, files) ==
    unwrap_or(as_str(Index(response, "clock")), <<>>) \o <<NUL>>
        \o print_files(files)

\* a query_watchman that looks for the files array before the error
QueryExits_files_first ==
    /\ pc = "wait_query"
    /\ CASE child.k = "wait_fail" ->
                FailAfterWait(context(<<"Failed to wait on watchman query">>,
                                      <<IoError>>))
         [] child.k = "not_utf8" ->
                FailAfterWait(context(<<"Watchman didn't return valid JSON">>,
                                      <<Utf8Error>>))
         [] child.k = "not_json" -> FailAfterWait(<<JsonError>>)
         [] child.k = "json" ->
                LET response == child.v
                    err == as_str(Index(response, "error"))
                    files == as_array(Index(response, "files"))
                IN  IF files.some
                    THEN /\ Exit(0, print_response(response, files.val), <<>>)
                         /\ child' = NoChild
                         /\ UNCHANGED <<requests, watchman>>
                    ELSE IF err.some
                    THEN IF ~is_unwatched_root(err.val)
                         THEN FailAfterWait(<<unexpected_reason(err.val, token)>>)
                         ELSE Run(watch_command(cwd.val), WatchOutcomes, <<>>,
                                  <<adding_to_watch_list(cwd.val)>>,
                                  bail(context(<<"Couldn't start watchman watch">>,
                                               <<IoError>>)),
                                  "wait_watch")
                    ELSE FailAfterWait(<< <<"missing file data">> >>)
    /\ UNCHANGED <<version, token, cwd, invocation, prev>>

\* query_watchman from the query subprocess's exit on: the response is
\* read and answered, or the root is added to the watch list
QueryExits ==
    /\ pc = "wait_query"
    /\ CASE child.k = "wait_fail" ->
                FailAfterWait(context(<<"Failed to wait on watchman query">>,
                                      <<IoError>>))
         [] child.k = "not_utf8" ->
                FailAfterWait(context(<<"Watchman didn't return valid JSON">>,
                                      <<Utf8Error>>))
         [] child.k = "not_json" -> FailAfterWait(<<JsonError>>)
         [] child.k = "json" ->
                LET response == child.v
                    err == as_str(Index(response, "error"))
                    files == as_array(Index(response, "files"))
                IN  IF err.some
                    THEN IF ~is_unwatched_root(err.val)
                         THEN FailAfterWait(<<unexpected_reason(err.val, token)>>)
                         ELSE Run(watch_command(cwd.val), WatchOutcomes, <<>>,
                                  <<adding_to_watch_list(cwd.val)>>,
                                  bail(context(<<"Couldn't start watchman watch">>,
                                               <<IoError>>)),
                                  "wait_watch")
                    ELSE IF files.some
                    THEN /\ Exit(0, print_response(response, files.val), <<>>)
                         /\ child' = NoChild
                         /\ UNCHANGED <<requests, watchman>>
                    ELSE FailAfterWait(<< <<"missing file data">> >>)
    /\ UNCHANGED <<version, token, cwd, invocation, prev>>

\* a check that takes any exit of the watch subprocess for a success
watch_succeeded_unchecked(status) == TRUE

\* output.status.success()
watch_succeeded(status) == status.success

\* add_to_watchman printing nothing
dirty_marker_missing == <<>>

\* the "everything is dirty" indication add_to_watchman prints
dirty_marker == <<"/", NUL>>

\* an add_to_watchman that prints the dirty marker before it looks at the
\* exit status
WatchExits_marker_first ==
    /\ pc = "wait_watch"
    /\ CASE child.k = "wait_fail" ->
                FailAfterWait(bail(context(
                    <<"Failed to wait on watchman watch">>, <<IoError>>)))
         [] child.k = "exit" ->
                IF ~watch_succeeded(child)
                THEN /\ Fail(dirty_marker, <<>>,
                             bail(<< <<"watchman watch failed">> >>))
                     /\ child' = NoChild
                     /\ UNCHANGED <<requests, watchman>>
                ELSE Run(clock_command(cwd.val), ClockOutcomes, dirty_marker,
                         <<>>,
                         bail(context(<<"Couldn't start watchman clock">>,
                                      <<IoError>>)),
                         "wait_clock")
    /\ UNCHANGED <<version, token, cwd, invocation, prev>>

\* add_to_watchman from the watch subprocess's exit on, then
\* get_watchman_clock up to its wait on the clock subprocess
WatchExits ==
    /\ pc = "wait_watch"
    /\ CASE child.k = "wait_fail" ->
                FailAfterWait(bail(context(
                    <<"Failed to wait on watchman watch">>, <<IoError>>)))
         [] child.k = "exit" ->
                IF ~watch_succeeded(child)
                THEN FailAfterWait(bail(<< <<"watchman watch failed">> >>))
                ELSE Run(clock_command(cwd.val), ClockOutcomes, dirty_marker,
                         <<>>,
                         bail(context(<<"Couldn't start watchman clock">>,
                                      <<IoError>>)),
                         "wait_clock")
    /\ UNCHANGED <<version, token, cwd, invocation, prev>>

\* print!("{}\0/\0", clock_id)
print_clock(clock_id) == clock_id \o <<NUL, "/", NUL>>

\* a bootstrap that, once the clock is fetched, goes back to run the query
\* against the newly watched root (twice at most)
ClockExits_then_query_again ==
    /\ pc = "wait_clock"
    /\ CASE child.k = "wait_fail" ->
                FailAfterWait(bail(context(
                    <<"Failed to wait on watchman clock">>, <<IoError>>)))
         [] child.k = "not_utf8" ->
                FailAfterWait(bail(context(
                    <<"Watchman didn't return valid JSON">>, <<Utf8Error>>)))
         [] child.k = "not_json" -> FailAfterWait(bail(<<JsonError>>))
         [] child.k = "json" ->
                LET clock_id == as_str(Index(child.v, "clock"))
                IN  IF clock_id.some /\ Len(requests) < 6
                    THEN /\ pc' = "main"
                         /\ child' = NoChild
                         /\ UNCHANGED <<requests, watchman, stdout, stderr,
                                        exit_code>>
                    ELSE IF clock_id.some
                    THEN /\ Exit(0, print_clock(clock_id.val), <<>>)
                         /\ child' = NoChild
                         /\ UNCHANGED <<requests, watchman>>
                    ELSE FailAfterWait(
                             bail(<< <<"failed to call watchman clock">> >>))
    /\ UNCHANGED <<version, token, cwd, invocation, prev>>

\* get_watchman_clock from the clock subprocess's exit on, and the end of
\* query_watchman's bootstrap branch
ClockExits ==
    /\ pc = "wait_clock"
    /\ CASE child.k = "wait_fail" ->
                FailAfterWait(bail(context(
                    <<"Failed to wait on watchman clock">>, <<IoError>>)))
         [] child.k = "not_utf8" ->
                FailAfterWait(bail(context(
                    <<"Watchman didn't return valid JSON">>, <<Utf8Error>>)))
         [] child.k = "not_json" -> FailAfterWait(bail(<<JsonError>>))
         [] child.k = "json" ->
                LET clock_id == as_str(Index(child.v, "clock"))
                IN  IF clock_id.some
                    THEN /\ Exit(0, print_clock(clock_id.val), <<>>)
                         /\ child' = NoChild
                         /\ UNCHANGED <<requests, watchman>>
                    ELSE FailAfterWait(
                             bail(<< <<"failed to call watchman clock">> >>))
    /\ UNCHANGED <<version, token, cwd, invocation, prev>>

\* a hook that keeps its output buffer from one run to the next
Reinvoke_keeping_stdout ==
    /\ pc = "exited"
    /\ invocation < MaxInvocations
    /\ prev' = Some([requests |-> requests, stdout |-> stdout,
                     stderr |-> stderr, exit_code |-> exit_code])
    /\ invocation' = invocation + 1
    /\ pc' = "main"
    /\ requests' = <<>>
    /\ child' = NoChild
    /\ stderr' = <<>>
    /\ exit_code' = Option_None
    /\ UNCHANGED <<version, token, cwd, watchman, stdout>>

\* git runs the hook again with the same arguments in the same work tree:
\* a new process, which starts with nothing of the previous one
Reinvoke ==
    /\ pc = "exited"
    /\ invocation < MaxInvocations
    /\ prev' = Some([requests |-> requests, stdout |-> stdout,
                     stderr |-> stderr, exit_code |-> exit_code])
    /\ invocation' = invocation + 1
    /\ pc' = "main"
    /\ requests' = <<>>
    /\ child' = NoChild
    /\ stdout' = <<>>
    /\ stderr' = <<>>
    /\ exit_code' = Option_None
    /\ UNCHANGED <<version, token, cwd, watchman>>

Init ==
    /\ version \in Versions
    /\ token \in Tokens
    /\ cwd \in Cwds
    /\ pc = "main"
    /\ requests = <<>>
    /\ child = NoChild
    /\ stdout = <<>>
    /\ stderr = <<>>
    /\ exit_code = Option_None
    /\ watchman = {}
    /\ invocation = 1
    /\ prev = Option_None

Next ==
    \/ main
    \/ QueryExits
    \/ WatchExits
    \/ ClockExits
    \/ Reinvoke

Spec == Init /\ [][Next]_vars

\* the process runs its code, and every watchman subprocess it waits for
\* exits in the end
SpecFair ==
    /\ Init
    /\ [][Next]_vars
    /\ WF_vars(main)
    /\ WF_vars(QueryExits)
    /\ WF_vars(WatchExits)
    /\ WF_vars(ClockExits)

-----------------------------------------------------------------------------
(* What the claims speak of *)

\* the query round trip is over and delivered a JSON response
Delivered ==
    /\ requests # <<>>
    /\ pc # "wait_query"
    /\ OutcomeOf(requests[1]).k = "json"

QueryResponse == OutcomeOf(requests[1]).v

HasString(response, key) ==
    /\ response.t = "obj"
    /\ key \in DOMAIN response.o
    /\ response.o[key].t = "str"

Succeeded == pc = "exited" /\ exit_code = Some(0)

Failed == pc = "exited" /\ exit_code = Some(1)

\* the error's text and the root is not watched
RootUnwatched ==
    /\ Delivered
    /\ HasString(QueryResponse, "error")
    /\ contains(QueryResponse.o["error"].s, Needle)

RECURSIVE Framed(_)
\* the wire format: every field followed by a NUL byte
Framed(fields) ==
    IF fields = <<>> THEN <<>>
    ELSE Framed(SubSeq(fields, 1, Len(fields) - 1))
             \o fields[Len(fields)] \o <<NUL>>

\* the first NUL-terminated field of a byte sequence
FirstField(bytes) ==
    LET end == CHOOSE i \in 1..Len(bytes) :
                   bytes[i] = NUL /\ \A j \in 1..(i - 1) : bytes[j] # NUL
    IN  SubSeq(bytes, 1, end - 1)

\* the clock round trip delivered a response with a clock string
ClockFetched ==
    /\ Len(requests) = 3
    /\ OutcomeOf(requests[3]).k = "json"
    /\ HasString(OutcomeOf(requests[3]).v, "clock")

StartsWith(bytes, prefix) ==
    Len(bytes) >= Len(prefix) /\ SubSeq(bytes, 1, Len(prefix)) = prefix

-----------------------------------------------------------------------------
\* C1: when the query response has no error string, a clock string C and a
\* files array of strings f1..fn, the whole stdout of the invocation is C,
\* NUL, then each fi followed by NUL, in the order received, nothing
\* merged, sorted or added; with no files it is C and one NUL.
C1_NormalWireFormat ==
    (/\ Delivered
     /\ ~HasString(QueryResponse, "error")
     /\ HasString(QueryResponse, "clock")
     /\ Index(QueryResponse, "files").t = "arr"
     /\ \A i \in DOMAIN QueryResponse.o["files"].a :
            QueryResponse.o["files"].a[i].t = "str")
    => LET names == [i \in DOMAIN QueryResponse.o["files"].a |->
                        QueryResponse.o["files"].a[i].s]
       IN  /\ Succeeded
           /\ stdout = Framed(<<QueryResponse.o["clock"].s>> \o names)
           /\ (names = <<>> => stdout = QueryResponse.o["clock"].s \o <<NUL>>)

C1_Witness ==
    /\ Succeeded
    /\ Delivered
    /\ QueryResponse =
           Object(Option_None, Some(JStr(QueryClock)),
                  Some(JArr(<<JStr(FileB), JStr(FileA)>>)))
    /\ stdout = QueryClock \o <<NUL>> \o FileB \o <<NUL>> \o FileA \o <<NUL>>

\* C2: when the query response's error says "unable to resolve root", the
\* invocation runs a watch of the work-tree root as its second command, a
\* clock of the same root as its third and last once the watch has exited
\* successfully and never otherwise, and no query after the first.
C2_BootstrapOrdering ==
    RootUnwatched
    => /\ Len(requests) \in {2, 3}
       /\ requests[2] = watch_command(requests[1].root)
       /\ requests[1].root = cwd.val
       /\ \A i \in 2..Len(requests) : requests[i].cmd # "query"
       /\ Len(requests) = 3
              => /\ requests[3] = clock_command(requests[1].root)
                 /\ OutcomeOf(requests[2]) = Exited(TRUE)
       /\ (OutcomeOf(requests[2]) = Exited(TRUE) /\ pc # "wait_watch")
              => Len(requests) = 3
       /\ pc = "wait_watch" => Len(requests) = 2

C2_Witness ==
    /\ RootUnwatched
    /\ pc = "wait_clock"
    /\ requests = <<get_watchman_query(Root, token), watch_command(Root),
                    clock_command(Root)>>

\* C3: after a bootstrap whose watch succeeded and whose clock request
\* returned {"clock": K}, the first NUL-terminated field of stdout, the
\* clock token git passes back next time, is K.
C3_BootstrapClockToken ==
    (/\ RootUnwatched
     /\ Succeeded
     /\ ClockFetched)
    => FirstField(stdout) = OutcomeOf(requests[3]).v.o["clock"].s

\* C4: on the bootstrap path the dirty marker, "/" and NUL, is on stdout
\* from the moment the clock command is run, and an invocation that fails
\* after that, whatever the way the clock request fails, ends with stdout
\* holding exactly that marker.
C4_DirtyMarkerNotLost ==
    (RootUnwatched /\ Len(requests) = 3)
    => /\ StartsWith(stdout, <<"/", NUL>>)
       /\ pc = "wait_clock" => stdout = <<"/", NUL>>
       /\ Failed => stdout = <<"/", NUL>>
       /\ (pc = "exited" /\ ~ClockFetched) => Failed

C4_Witness ==
    /\ RootUnwatched
    /\ Len(requests) = 3
    /\ Failed
    /\ OutcomeOf(requests[3]) = Json(JObj(<<>>))
    /\ stdout = <<"/", NUL>>

\* C5: when the query response's error string does not contain "unable to
\* resolve root" exactly as written (a differently-cased variant does not
\* count), the invocation fails, the message it prints holds the error
\* text and the token, no watch or clock command is run and stdout stays
\* empty.
C5_UnrecognizedErrorFatal ==
    (/\ Delivered
     /\ HasString(QueryResponse, "error")
     /\ ~contains(QueryResponse.o["error"].s, Needle))
    => /\ Failed
       /\ requests = <<get_watchman_query(cwd.val, token)>>
       /\ stdout = <<>>
       /\ Len(stderr) = 1
       /\ contains(stderr[1], QueryResponse.o["error"].s)
       /\ contains(stderr[1], <<" (token: ">> \o token \o <<")">>)

C5_Witness ==
    /\ Delivered
    /\ HasString(QueryResponse, "error")
    /\ QueryResponse.o["error"].s = <<"U">> \o Tail(Needle)
    /\ token = ClockToken
    /\ Failed

\* C6: with a version other than 2 the invocation fails without running
\* any watchman command and without writing to stdout.
C6_VersionGate ==
    version # 2
    => /\ requests = <<>>
       /\ stdout = <<>>
       /\ child = NoChild
       /\ pc \in {"main", "exited"}
       /\ pc = "exited" => exit_code = Some(1)

C6_Witness == version = 3 /\ pc = "exited" /\ exit_code = Some(1)

\* C7: for a token whose first character is `c`, the `since` of the query
\* is the token itself, as a string, unchanged.
C7_ClockIdPassThrough ==
    (requests # <<>> /\ token # <<>> /\ token[1] = "c")
    => /\ requests[1].cmd = "query"
       /\ requests[1].since = JStr(token)

C7_Witness ==
    /\ requests # <<>>
    /\ token = <<"c", "9">>
    /\ requests[1].since = JStr(<<"c", "9">>)

\* the tokens made of decimal digits only
AllDigits(tok) ==
    /\ tok # <<>>
    /\ \A i \in 1..Len(tok) : tok[i] \in {Digit[d] : d \in 1..10}

\* the number a token of digits denotes
ValueOf(tok) == Canon([i \in 1..Len(tok) |-> DigitVal(tok[i])])

\* x * 1_000_000_000
TimesBillion(x) == Canon(x \o <<0, 0, 0, 0, 0, 0, 0, 0, 0>>)

\* q = floor(t / 1_000_000_000): q * 10^9 <= t < (q + 1) * 10^9
IsFloorOfBillionth(q, t) ==
    /\ BigLeq(TimesBillion(q), t)
    /\ ~BigLeq(TimesBillion(BigInc(q)), t)

\* a token without its optional leading `+`
Unsigned(tok) == IF tok # <<>> /\ tok[1] = "+" THEN Tail(tok) ELSE tok

\* the tokens u64's parser takes: digits, after an optional `+`, whose
\* value is at most 2^64 - 1
ParsesAsU64(tok) ==
    AllDigits(Unsigned(tok)) /\ BigLeq(ValueOf(Unsigned(tok)), U64_MAX)

C9_PermissiveTokenFallback ==
    (/\ ~(token # <<>> /\ token[1] = "c")
     /\ ~ParsesAsU64(token)
     /\ version = 2
     /\ cwd.some
     /\ pc # "main")
    => /\ requests # <<>>
       /\ requests[1].cmd = "query"
       /\ requests[1].since = JNum(<<0>>)

C9_Witness ==
    /\ pc = "wait_query"
    /\ token = <<"-", "5", "0", "0", "0", "0", "0", "0", "0", "0", "0">>
    /\ requests[1].since = JNum(<<0>>)

TransportFailures ==
    {"spawn_fail", "write_fail", "wait_fail", "not_utf8", "not_json"}

\* C11 (state part): at most three commands are run, a query, then a
\* watch, then a clock; the only subprocess outstanding is the last one
\* run; a command whose round trip failed in transport is the last one,
\* and the invocation fails on it.
RoundTripsInOrder ==
    /\ Len(requests) <= 3
    /\ \A i \in 1..Len(requests) :
           requests[i].cmd = <<"query", "watch", "clock">>[i]
    /\ \A i \in 1..Len(requests) :
           OutcomeOf(requests[i]).k \in TransportFailures
               => /\ i = Len(requests)
                  /\ pc \in {"wait_query", "wait_watch", "wait_clock", "exited"}
                  /\ pc = "exited" => exit_code = Some(1)
                  /\ OutcomeOf(requests[i]).k \in {"spawn_fail", "write_fail"}
                         => pc = "exited"
    /\ child # NoChild
           => /\ requests # <<>>
              /\ child = OutcomeOf(requests[Len(requests)])
    /\ pc \in {"wait_query", "wait_watch", "wait_clock"} => child # NoChild

\* C11 (step part): a command is run only in a step that starts with no
\* subprocess outstanding or collects the one that is, after it exited
\* with an output; one command is run at a time and none is run twice.
OneRoundTripAtATime ==
    (requests' # requests /\ invocation' = invocation)
    => /\ requests' = Append(requests, requests'[Len(requests')])
       /\ \A i \in 1..Len(requests) :
              requests[i].cmd # requests'[Len(requests')].cmd
       /\ requests = <<>> => child = NoChild
       /\ requests # <<>>
              => /\ pc \in {"wait_query", "wait_watch"}
                 /\ child = OutcomeOf(requests[Len(requests)])
                 /\ child.k \in {"json", "exit"}

\* C11: an invocation runs at most three watchman subprocesses, at most
\* one each of query, watch and clock and in that order, each only after
\* the one before has exited and been collected, so that never more than
\* one is outstanding; after a round trip fails (spawn, write or wait
\* failure, output that is not UTF-8 or not JSON) nothing is retried and
\* no further subprocess is run.
C11_RoundTripDiscipline == []RoundTripsInOrder /\ [][OneRoundTripAtATime]_vars

C11_Witness ==
    /\ pc = "exited"
    /\ Len(requests) = 3
    /\ OutcomeOf(requests[3]).k = "not_json"
    /\ child = NoChild

\* the bootstrap path's watch subprocess has exited successfully
WatchRegistered ==
    /\ RootUnwatched
    /\ pc # "wait_watch"
    /\ Len(requests) >= 2
    /\ OutcomeOf(requests[2]) = Exited(TRUE)

\* C12: an invocation that ends in failure has written nothing to stdout,
\* unless it failed after a successful watch registration on the bootstrap
\* path; off the bootstrap path, bytes are on stdout only once the
\* invocation has succeeded.
C12_NoPartialOutputOnFailure ==
    /\ Failed => (stdout = <<>> \/ WatchRegistered)
    /\ (stdout # <<>> /\ ~RootUnwatched) => Succeeded
    /\ (stdout # <<>> /\ ~Succeeded) => WatchRegistered

C12_Witness ==
    /\ Failed
    /\ Delivered
    /\ QueryResponse = Object(Option_None, Some(JStr(QueryClock)), Option_None)
    /\ stdout = <<>>

\* C13: when the query response has neither an error string nor a files
\* array, the invocation fails with "missing file data", having run the
\* query alone and written nothing to stdout.
C13_MissingFileData ==
    (/\ Delivered
     /\ ~HasString(QueryResponse, "error")
     /\ Index(QueryResponse, "files").t # "arr")
    => /\ Failed
       /\ stderr = << <<"missing file data">> >>
       /\ requests = <<get_watchman_query(cwd.val, token)>>
       /\ stdout = <<>>

C13_Witness ==
    /\ Delivered
    /\ QueryResponse = JObj(<<>>)
    /\ Failed
    /\ stderr = << <<"missing file data">> >>

\* C14: on the bootstrap path, when the watch subprocess cannot be
\* started, cannot be waited for or exits unsuccessfully, the invocation
\* fails without running a clock command and without writing anything, the
\* dirty marker included, to stdout; the line announcing the registration
\* is on stderr from the moment the watch command is run, ahead of any
\* error.
C14_WatchRegistrationFailure ==
    RootUnwatched
    => /\ stderr # <<>>
       /\ stderr[1] = adding_to_watch_list(requests[2].root)
       /\ (pc # "wait_watch" /\ OutcomeOf(requests[2]) # Exited(TRUE))
              => /\ Failed
                 /\ Len(requests) = 2
                 /\ stdout = <<>>
                 /\ Len(stderr) = 2
       /\ pc = "wait_watch" => (stdout = <<>> /\ Len(stderr) = 1)

C14_Witness ==
    /\ RootUnwatched
    /\ OutcomeOf(requests[2]) = Exited(FALSE)
    /\ Failed
    /\ stderr = <<adding_to_watch_list(Root), <<"watchman watch failed">> >>

RECURSIVE Fields(_)
\* the NUL-terminated fields of a byte sequence, in order
Fields(bytes) ==
    IF bytes = <<>> THEN <<>>
    ELSE <<FirstField(bytes)>>
             \o Fields(SubSeq(bytes, Len(FirstField(bytes)) + 2, Len(bytes)))

\* C15: after a successful bootstrap (the watch succeeded, the clock was
\* fetched) the reply on stdout, read as <clock> NUL <path> NUL ...,
\* carries exactly one changed path, and it is "/".
C15_BootstrapReplyShape ==
    (RootUnwatched /\ Succeeded /\ ClockFetched)
    => Tail(Fields(stdout)) = << <<"/">> >>

IsString(value) == value.t = "str"

\* the strings among the entries of a files array, in their order
StringsOf(entries) ==
    LET strings == SelectSeq(entries, IsString)
    IN  [i \in 1..Len(strings) |-> strings[i].s]

\* C16: whatever the files array of a response without error string
\* holds, the invocation succeeds; the entries that are no strings are
\* skipped and the strings are written after the clock field, each
\* followed by NUL, in their original relative order.
C16_NonStringFileEntries ==
    (/\ Delivered
     /\ ~HasString(QueryResponse, "error")
     /\ Index(QueryResponse, "files").t = "arr")
    => /\ Succeeded
       /\ Len(requests) = 1
       /\ SubSeq(stdout, Len(FirstField(stdout)) + 2, Len(stdout))
              = Framed(StringsOf(QueryResponse.o["files"].a))

C16_Witness ==
    /\ Delivered
    /\ QueryResponse =
           Object(Option_None, Some(JStr(QueryClock)),
                  Some(JArr(<<JNum(<<7>>), JStr(FileA)>>)))
    /\ Succeeded
    /\ stdout = QueryClock \o <<NUL>> \o FileA \o <<NUL>>

\* the response has the key, with a value that is no string
HasNonString(response, key) ==
    /\ response.t = "obj"
    /\ key \in DOMAIN response.o
    /\ response.o[key].t # "str"

\* C17: when the query response has an error string, the error alone
\* decides: the invocation fails if the text is not recognised and
\* bootstraps if it is, and stdout never holds the clock or the files of
\* that response, only the dirty marker and the fetched clock; an error
\* field that is no string is treated as if it were absent.
C17_ErrorTakesPrecedence ==
    /\ (Delivered /\ HasString(QueryResponse, "error"))
       => /\ ~contains(QueryResponse.o["error"].s, Needle)
                 => (Failed /\ Len(requests) = 1)
          /\ contains(QueryResponse.o["error"].s, Needle)
                 => (Len(requests) >= 2 /\ requests[2].cmd = "watch")
          /\ \/ stdout \in {<<>>, <<"/", NUL>>}
             \/ /\ ClockFetched
                /\ stdout = <<"/", NUL>>
                       \o OutcomeOf(requests[3]).v.o["clock"].s
                       \o <<NUL, "/", NUL>>
          /\ ~contains(stdout, QueryClock)
          /\ ~contains(stdout, FileA)
    /\ (Delivered /\ HasNonString(QueryResponse, "error"))
       => /\ Len(requests) = 1
          /\ pc = "exited"
          /\ IF Index(QueryResponse, "files").t = "arr"
             THEN /\ Succeeded
                  /\ stdout =
                         unwrap_or(as_str(Index(QueryResponse, "clock")), <<>>)
                             \o <<NUL>>
                             \o Framed(StringsOf(QueryResponse.o["files"].a))
             ELSE /\ Failed
                  /\ stderr = << <<"missing file data">> >>

C17_Witness ==
    /\ Delivered
    /\ QueryResponse =
           Object(Some(JStr(Needle)), Some(JStr(QueryClock)),
                  Some(JArr(<<JStr(FileA)>>)))
    /\ Succeeded
    /\ stdout = <<"/", NUL>> \o FreshClock \o <<NUL, "/", NUL>>

\* C18: when the query response has a files array but no clock string
\* (none, or a value that is no string) and no error string, the
\* invocation does not fail: it succeeds with an empty clock token, stdout
\* being a NUL byte followed by the paths.
C18_MissingClockNormalPath ==
    (/\ Delivered
     /\ ~HasString(QueryResponse, "error")
     /\ ~HasString(QueryResponse, "clock")
     /\ Index(QueryResponse, "files").t = "arr")
    => /\ Succeeded
       /\ stdout # <<>>
       /\ stdout[1] = NUL
       /\ FirstField(stdout) = <<>>
       /\ stdout = <<NUL>> \o Framed(StringsOf(QueryResponse.o["files"].a))

C18_Witness ==
    /\ Delivered
    /\ QueryResponse =
           Object(Option_None, Some(JNum(<<7>>)), Some(JArr(<<JStr(FileA)>>)))
    /\ Succeeded
    /\ stdout = <<NUL>> \o FileA \o <<NUL>>

\* how far an invocation is
Rank(p) ==
    CASE p = "main" -> 0
      [] p = "wait_query" -> 1
      [] p = "wait_watch" -> 2
      [] p = "wait_clock" -> 3
      [] p = "exited" -> 4

\* an invocation that has ended has one of the three outcomes: success
\* after the query alone, bootstrap success after the three commands, or
\* failure
OneTerminalOutcome ==
    pc = "exited"
    => /\ exit_code \in {Some(0), Some(1)}
       /\ Len(requests) <= 3
       /\ Succeeded => \/ Len(requests) = 1 /\ ~RootUnwatched
                       \/ Len(requests) = 3 /\ RootUnwatched

\* within an invocation every step moves forward, and none leaves the end
NoLoopBack == invocation' = invocation => Rank(pc') > Rank(pc)

\* an invocation waiting for a subprocess does nothing, and writes
\* nothing, until that subprocess exits
OnlyTheExitResumes ==
    /\ pc = "wait_query" => QueryExits
    /\ pc = "wait_watch" => WatchExits
    /\ pc = "wait_clock" => ClockExits
    /\ pc \in {"wait_query", "wait_watch", "wait_clock"} => child # NoChild

\* C19: provided every watchman subprocess run exits in the end, every
\* invocation ends (whenever one is running, its exit lies ahead), in
\* exactly one of success, bootstrap success and
\* failure, after at most three round trips and without ever going back;
\* and as long as a subprocess it waits for has not exited, the
\* invocation neither ends nor writes anything.
C19_Termination ==
    /\ []<>(pc = "exited")
    /\ []OneTerminalOutcome
    /\ [][NoLoopBack]_vars
    /\ [][OnlyTheExitResumes]_vars

C19_Witness ==
    /\ pc = "exited"
    /\ invocation = 2
    /\ Succeeded
    /\ Len(requests) = 3

====
